---- MODULE Spec2Model ----
(***************************************************************************)
(* Authentication and session lifecycle of the speech-to-text backend:     *)
(* routes/auth.js (register, login, refresh, logout, logout-all,           *)
(* change-password), middleware/auth.js (authenticate), utils/jwt.js       *)
(* (token issue / verify) and the User model's lockout and refresh-token   *)
(* methods.  Time is counted in seconds, the resolution of a JWT's iat and *)
(* exp claims.  Each request handler runs to completion before the next    *)
(* request starts (sequential requests).  A handler is a function of the   *)
(* stored state and the request: it yields the collection as it leaves it  *)
(* and the response it sends.  A second specification, SpecC, lets         *)
(* register requests overlap: inflight holds the requests that have passed *)
(* the existence check and have not yet saved.                             *)
(***************************************************************************)
EXTENDS Integers, Sequences, FiniteSets, TLC

VARIABLES users, now, limiter, hist, inflight, transcriptions

vars == <<users, now, limiter, hist, inflight, transcriptions>>

(***************************************************************************)
(* Program constants                                                       *)
(***************************************************************************)
RATE_WINDOW == 900
RATE_MAX == 5
ACCESS_TTL == 900
REFRESH_TTL == 604800
LOCK_TIME == 7200
MAX_LOGIN_ATTEMPTS == 5
MAX_REFRESH_TOKENS == 5
MIN_PASSWORD == 6
DUPLICATE_KEY == 11000

(***************************************************************************)
(* Bounds of the model.  The clock visits the first MaxSec seconds, and    *)
(* then the instants at which the durations the program measures elapse.   *)
(***************************************************************************)
MaxSec == 0
\* Register requests that may be between their check and their save.
MaxInflight == 2

Epochs == {0, RATE_WINDOW, ACCESS_TTL, LOCK_TIME, REFRESH_TTL}
Instants == (0..MaxSec) \cup Epochs

Clients == {"ip1"}
EmailInputs == {"", "a@x.com", "A@X.com"}
\* Request bodies of POST /register: <<name, email, password>>.
RegisterBodies ==
  {<<"Ann", "a@x.com", "secret1">>, <<"Ann", "A@X.com", "secret1">>,
   <<"", "a@x.com", "secret1">>, <<"Ann", "", "secret1">>,
   <<"Ann", "a@x.com", "">>, <<"Ann", "a@x.com", "short">>}
\* Request bodies of POST /login: <<email, password>>.
LoginBodies ==
  {<<"a@x.com", "secret1">>, <<"A@X.com", "hunter22">>,
   <<"", "secret1">>, <<"a@x.com", "">>}
\* Request bodies of PUT /change-password: <<currentPassword, newPassword>>.
ChangePasswordBodies ==
  {<<"secret1", "hunter22">>, <<"hunter22", "secret1">>,
   <<"secret1", "secret1">>, <<"", "hunter22">>, <<"secret1", "short">>}
Salts == {"s1"}
\* A field the request body does not have.
Absent == "undefined"
\* Request bodies of PUT /me: name, theme and email fields.
ProfileBodies ==
  {[name |-> " Bo ", theme |-> "dark", email |-> Absent],
   [name |-> " Bo ", theme |-> "dark", email |-> "b@x.com"],
   [name |-> Absent, theme |-> Absent, email |-> "b@x.com"],
   [name |-> "", theme |-> Absent, email |-> Absent],
   [name |-> " B", theme |-> Absent, email |-> Absent],
   [name |-> Absent, theme |-> "neon", email |-> Absent],
   [name |-> Absent, theme |-> Absent, email |-> Absent]}

NoTime == 0 - 1

(***************************************************************************)
(* Pure helpers                                                            *)
(***************************************************************************)
\* String.prototype.toLowerCase on the e-mail inputs of the model.
ToLowerCase(e) == IF e = "A@X.com" THEN "a@x.com" ELSE e

\* String.prototype.trim on the name inputs of the model.
Trim(n) == IF n = " Bo " THEN "Bo" ELSE IF n = " B" THEN "B" ELSE n

NormEmails == {ToLowerCase(e) : e \in EmailInputs \ {""}}
\* Subjects a token may name: every user id, and one id that has no record.
Subjects == 1..(Cardinality(NormEmails) + 1)

\* A JWT is determined by its signing secret (kind), its payload
\* (userId; email and role are fixed per user) and the second it was signed.
Token(kind, uid, iat) == [kind |-> kind, userId |-> uid, iat |-> iat]
NoToken == Token("none", 0, 0)
Garbage == Token("garbage", 0, 0)
\* An Authorization header of another scheme, and "Bearer " with nothing
\* after it.
NonBearer == Token("nonbearer", 0, 0)
EmptyBearer == Token("empty", 0, 0)
Kinds == {"access", "refresh"}
\* The tokens the issuer can have signed by now, for either secret.  A
\* token naming the subject without a record is refused whenever it was
\* signed: the one signed this second stands for all of them.
AbsentSubject == Cardinality(NormEmails) + 1
SignedTokens ==
  {tok \in {Token(k, uid, iat) : k \in Kinds, uid \in Subjects,
                                 iat \in {t \in Instants : t <= now}} :
     tok.userId = AbsentSubject => tok.iat = now}
\* Authorization headers: none, another scheme, "Bearer ", "Bearer <junk>",
\* "Bearer <access token>", "Bearer <refresh token>".
HeaderInputs ==
  {NoToken, NonBearer, EmptyBearer, Garbage} \cup {t \in SignedTokens : t.kind = "access" \/ t.iat = now}
\* refreshToken fields of a request body: absent, junk, a refresh token, an
\* access token.
RefreshInputs ==
  {NoToken, Garbage} \cup {t \in SignedTokens : t.kind = "refresh" \/ t.iat = now}
\* refreshToken fields sent to POST /logout: absent, a string that is no
\* session of anybody, a signed refresh token.
LogoutBodies ==
  {NoToken, Garbage} \cup {t \in SignedTokens : t.kind = "refresh"}

generateAccessToken(uid) == Token("access", uid, now)
generateRefreshToken(uid) == Token("refresh", uid, now)
generateTokenPair(uid) ==
  [accessToken |-> generateAccessToken(uid),
   refreshToken |-> generateRefreshToken(uid)]

\* jwt.verify: signature under the class's own secret, then exp > clock.
\* Mutant: the access verifier accepts a signature made with either secret.
verifyAccessToken_AnySecret(tok) == tok.kind \in Kinds /\ now < tok.iat + ACCESS_TTL

verifyAccessToken(tok) == tok.kind = "access" /\ now < tok.iat + ACCESS_TTL
verifyRefreshToken(tok) == tok.kind = "refresh" /\ now < tok.iat + REFRESH_TTL

\* Password hasher: salted one-way hash and its verification.
\* A password kept as it was typed: no algorithm, no salt.
PlainText(plain) == [alg |-> "none", salt |-> "", of |-> plain]

\* Mutant: the password is stored as typed.
Hash_Identity(plain, salt) == PlainText(plain)

Hash(plain, salt) == [alg |-> "bcrypt", salt |-> salt, of |-> plain]
comparePassword(u, candidate) == candidate # "" /\ u.password.of = candidate

(***************************************************************************)
(* User model                                                              *)
(***************************************************************************)
NewUser(name, email, password, salt) ==
  [name |-> name, email |-> email, password |-> Hash(password, salt),
   theme |-> "system", role |-> "user", loginAttempts |-> 0, lockUntil |-> NoTime,
   refreshTokens |-> <<>>, lastLogin |-> NoTime]

isLocked(u) == u.lockUntil # NoTime /\ u.lockUntil > now

incLoginAttempts(u) ==
  IF u.lockUntil # NoTime /\ u.lockUntil <= now
  THEN [u EXCEPT !.loginAttempts = 1, !.lockUntil = NoTime]
  ELSE IF u.loginAttempts + 1 >= MAX_LOGIN_ATTEMPTS
       THEN [u EXCEPT !.loginAttempts = @ + 1, !.lockUntil = now + LOCK_TIME]
       ELSE [u EXCEPT !.loginAttempts = @ + 1]

resetLoginAttempts(u) == [u EXCEPT !.loginAttempts = 0, !.lockUntil = NoTime]

addRefreshToken(u, tok) ==
  LET l == Append(u.refreshTokens, [token |-> tok, createdAt |-> now])
  IN  [u EXCEPT !.refreshTokens =
         IF Len(l) > MAX_REFRESH_TOKENS
         THEN SubSeq(l, Len(l) - MAX_REFRESH_TOKENS + 1, Len(l))
         ELSE l]

removeRefreshToken(u, tok) ==
  [u EXCEPT !.refreshTokens = SelectSeq(@, LAMBDA rt : rt.token # tok)]

\* User.findOne({ email }): the id of the record, 0 when there is none.
FindOneByEmail(email) ==
  IF \E i \in 1..Len(users) : users[i].email = email
  THEN CHOOSE i \in 1..Len(users) : users[i].email = email
  ELSE 0

\* User.findById
FindById(uid) == IF uid \in 1..Len(users) THEN uid ELSE 0

TokenSet(u) == {u.refreshTokens[i].token : i \in 1..Len(u.refreshTokens)}

(***************************************************************************)
(* Responses                                                               *)
(***************************************************************************)
Reply(op, status) ==
  [op |-> op, status |-> status, accessToken |-> NoToken, refreshToken |-> NoToken]

ReplyTokens(op, status, pair) ==
  [Reply(op, status) EXCEPT !.accessToken = pair.accessToken,
                            !.refreshToken = pair.refreshToken]

\* What a handler hands back: the collection as it leaves it, and its answer.
Out(us, r) == [users |-> us, resp |-> r]

(***************************************************************************)
(* authLimiter: express-rate-limit, a fixed window per client              *)
(***************************************************************************)
LimiterHit(c) ==
  IF now >= limiter[c].resetTime
  THEN [hits |-> 1, resetTime |-> now + RATE_WINDOW]
  ELSE [limiter[c] EXCEPT !.hits = IF @ > RATE_MAX THEN @ ELSE @ + 1]

\* Mutant: the limiter counts and never refuses.
LimiterBlocks_Never(c) == FALSE

LimiterBlocks(c) == LimiterHit(c).hits > RATE_MAX

(***************************************************************************)
(* POST /register                                                          *)
(***************************************************************************)
\* User.findOne({ email: email.toLowerCase() })
RegisterExisting(email) == FindOneByEmail(ToLowerCase(email))

\* Mutant: every failed save is reported as an internal error.
RegisterSaveError_Generic(code) == 500

\* The catch block of the register handler, by the store's error code.
RegisterSaveError(code) == IF code = DUPLICATE_KEY THEN 409 ELSE 500

\* new User(..).save() and what follows it.  The store refuses a second
\* record with the same email (unique index); otherwise the user is created
\* and gets its first session.
RegisterSave(name, email, password, salt) ==
  IF FindOneByEmail(email) # 0
  THEN Out(users, Reply("register", RegisterSaveError(DUPLICATE_KEY)))
  ELSE LET uid == Len(users) + 1
           pair == generateTokenPair(uid)
           user == addRefreshToken(NewUser(name, email, password, salt),
                                   pair.refreshToken)
       IN  Out(Append(users, user), ReplyTokens("register", 201, pair))

\* The status the handler answers with before it creates anything, 0 when
\* the request passes validation and the existence check.
RegisterCheck(name, email, password) ==
  IF name = "" \/ email = "" \/ password = "" THEN 400
  ELSE IF Len(password) < MIN_PASSWORD THEN 400
  ELSE IF RegisterExisting(email) # 0 THEN 409
  ELSE 0

\* Mutant: the handler validates the fields and creates the record, with
\* no existence check and no unique index behind it.
RegisterHandler_NoDuplicateCheck(name, email, password, salt) ==
  IF name = "" \/ email = "" \/ password = "" \/ Len(password) < MIN_PASSWORD
  THEN Out(users, Reply("register", 400))
  ELSE Out(Append(users, addRefreshToken(
                           NewUser(name, ToLowerCase(email), password, salt),
                           generateTokenPair(Len(users) + 1).refreshToken)),
           ReplyTokens("register", 201, generateTokenPair(Len(users) + 1)))

RegisterHandler(name, email, password, salt) ==
  IF RegisterCheck(name, email, password) # 0
  THEN Out(users, Reply("register", RegisterCheck(name, email, password)))
  ELSE RegisterSave(name, ToLowerCase(email), password, salt)

(***************************************************************************)
(* POST /login                                                             *)
(***************************************************************************)
\* Mutant: the handler forgets to look at the lock.
LoginLockCheck_Never(u) == FALSE

LoginLockCheck(u) == isLocked(u)

\* Mutant: the handler counts and locks by itself and does not start a new
\* window when the previous lock has expired.
LoginFailure_NoNewWindow(u) ==
  IF u.loginAttempts + 1 >= MAX_LOGIN_ATTEMPTS
  THEN [u EXCEPT !.loginAttempts = @ + 1, !.lockUntil = now + LOCK_TIME]
  ELSE [u EXCEPT !.loginAttempts = @ + 1]

\* Mutant: a failed attempt is stamped as a login.
LoginFailure_StampsLogin(u) == [incLoginAttempts(u) EXCEPT !.lastLogin = now]

\* Mutant: the fourth failure of a run already locks.
LoginFailure_LocksEarly(u) ==
  IF (u.lockUntil = NoTime \/ u.lockUntil > now)
       /\ u.loginAttempts + 2 >= MAX_LOGIN_ATTEMPTS
  THEN [u EXCEPT !.loginAttempts = @ + 1, !.lockUntil = now + LOCK_TIME]
  ELSE incLoginAttempts(u)

LoginFailure(u) == incLoginAttempts(u)

\* Mutant: a successful login does not reset the failure counter.
LoginSuccess_NoReset(u, uid) ==
  addRefreshToken([u EXCEPT !.lastLogin = now], generateTokenPair(uid).refreshToken)

\* Mutant: the handler pushes the new session onto the array itself.
LoginSuccess_PushUncapped(u, uid) ==
  LET u1 == IF u.loginAttempts > 0 THEN resetLoginAttempts(u) ELSE u
  IN  [u1 EXCEPT !.lastLogin = now,
                 !.refreshTokens = Append(@, [token |-> generateTokenPair(uid).refreshToken,
                                              createdAt |-> now])]

\* Mutant: the save of a login hashes the stored password again.
LoginSuccess_Rehash(u, uid) ==
  LET u1 == IF u.loginAttempts > 0 THEN resetLoginAttempts(u) ELSE u
      u2 == [u1 EXCEPT !.lastLogin = now,
                       !.password = Hash(u.password.of, "resalted")]
  IN  addRefreshToken(u2, generateTokenPair(uid).refreshToken)

LoginSuccess(u, uid) ==
  LET u1 == IF u.loginAttempts > 0 THEN resetLoginAttempts(u) ELSE u
      u2 == [u1 EXCEPT !.lastLogin = now]
  IN  addRefreshToken(u2, generateTokenPair(uid).refreshToken)

\* Mutant: the lock is looked at only after a password has been accepted,
\* so a wrong password on a locked account still counts as a failure.
LoginHandler_LockAfterPassword(email, password) ==
  LET uid == FindOneByEmail(ToLowerCase(email))
  IN  IF email = "" \/ password = ""
      THEN Out(users, Reply("login", 400))
      ELSE IF uid = 0
      THEN Out(users, Reply("login", 401))
      ELSE IF ~comparePassword(users[uid], password)
      THEN Out([users EXCEPT ![uid] = LoginFailure(@)], Reply("login", 401))
      ELSE IF LoginLockCheck(users[uid])
      THEN Out(users, Reply("login", 423))
      ELSE Out([users EXCEPT ![uid] = LoginSuccess(@, uid)],
               ReplyTokens("login", 200, generateTokenPair(uid)))

LoginHandler(email, password) ==
  LET uid == FindOneByEmail(ToLowerCase(email))
  IN  IF email = "" \/ password = ""
      THEN Out(users, Reply("login", 400))
      ELSE IF uid = 0
      THEN Out(users, Reply("login", 401))
      ELSE IF LoginLockCheck(users[uid])
      THEN Out(users, Reply("login", 423))
      ELSE IF ~comparePassword(users[uid], password)
      THEN Out([users EXCEPT ![uid] = LoginFailure(@)], Reply("login", 401))
      ELSE Out([users EXCEPT ![uid] = LoginSuccess(@, uid)],
               ReplyTokens("login", 200, generateTokenPair(uid)))

\* Mutant: the handler tells an unknown address from a wrong password.
LoginMessageNoUser_Reveals == "User not found"

\* The message bodies of the login handler's two 401 answers.
LoginMessageNoUser == "Invalid email or password"
LoginMessageWrongPassword == "Invalid email or password"

\* The message of the login handler's answer, branch by branch.
LoginMessage(email, password) ==
  LET uid == FindOneByEmail(ToLowerCase(email))
  IN  IF email = "" \/ password = "" THEN "Email and password are required"
      ELSE IF uid = 0 THEN LoginMessageNoUser
      ELSE IF LoginLockCheck(users[uid]) THEN "Account is temporarily locked"
      ELSE IF ~comparePassword(users[uid], password) THEN LoginMessageWrongPassword
      ELSE "Login successful"

(***************************************************************************)
(* POST /refresh                                                           *)
(***************************************************************************)
\* Mutant: the signature alone is trusted, the stored set is not consulted.
RefreshTokenExists_SignatureOnly(u, tok) == TRUE

RefreshTokenExists(u, tok) ==
  \E i \in 1..Len(u.refreshTokens) : u.refreshTokens[i].token = tok

RefreshRotate(u, old, new) == addRefreshToken(removeRefreshToken(u, old), new)

\* Mutant: a verified token that is not a stored session is taken for a
\* replay and ends every session of its user.
RefreshHandler_RevokesOnReuse(tok) ==
  LET uid == FindById(tok.userId)
      bad == Reply("refresh", 401)
  IN  IF tok = NoToken
      THEN Out(users, bad)
      ELSE IF ~verifyRefreshToken(tok)
      THEN Out(users, bad)
      ELSE IF uid = 0
      THEN Out(users, bad)
      ELSE IF ~RefreshTokenExists(users[uid], tok)
      THEN Out([users EXCEPT ![uid].refreshTokens = <<>>], bad)
      ELSE LET pair == generateTokenPair(uid)
           IN  Out([users EXCEPT ![uid] = RefreshRotate(@, tok, pair.refreshToken)],
                   ReplyTokens("refresh", 200, pair))

\* Mutant: refresh looks at the lock as login does.
RefreshHandler_LockedRefused(tok) ==
  LET uid == FindById(tok.userId)
      bad == Reply("refresh", 401)
  IN  IF tok = NoToken
      THEN Out(users, bad)
      ELSE IF ~verifyRefreshToken(tok)
      THEN Out(users, bad)
      ELSE IF uid = 0
      THEN Out(users, bad)
      ELSE IF isLocked(users[uid])
      THEN Out(users, Reply("refresh", 423))
      ELSE IF ~RefreshTokenExists(users[uid], tok)
      THEN Out(users, bad)
      ELSE LET pair == generateTokenPair(uid)
           IN  Out([users EXCEPT ![uid] = RefreshRotate(@, tok, pair.refreshToken)],
                   ReplyTokens("refresh", 200, pair))

RefreshHandler(tok) ==
  LET uid == FindById(tok.userId)
      bad == Reply("refresh", 401)
  IN  IF tok = NoToken
      THEN Out(users, bad)
      ELSE IF ~verifyRefreshToken(tok)
      THEN Out(users, bad)
      ELSE IF uid = 0
      THEN Out(users, bad)
      ELSE IF ~RefreshTokenExists(users[uid], tok)
      THEN Out(users, bad)
      ELSE LET pair == generateTokenPair(uid)
           IN  Out([users EXCEPT ![uid] = RefreshRotate(@, tok, pair.refreshToken)],
                   ReplyTokens("refresh", 200, pair))

(***************************************************************************)
(* authenticate middleware: the status it answers with, 0 when it calls    *)
(* next(), and the user it attaches to the request.                        *)
(***************************************************************************)
\* The name of the error jwt.verify throws for a token presented as an
\* access token ("" when it returns the payload): the signature is checked
\* before the expiry.
JwtVerifyError(tok) ==
  IF tok.kind # "access" THEN "JsonWebTokenError"
  ELSE IF now >= tok.iat + ACCESS_TTL THEN "TokenExpiredError"
  ELSE ""

\* The name of the error verifyAccessToken hands to its caller: whatever
\* jwt.verify threw is replaced by a plain Error.
AccessTokenError(tok) == IF JwtVerifyError(tok) = "" THEN "" ELSE "Error"

\* The catch block of authenticate: status and code by the error's name.
AuthenticateCatch(name) ==
  IF name = "TokenExpiredError" THEN [status |-> 401, code |-> "TOKEN_EXPIRED"]
  ELSE IF name = "JsonWebTokenError" THEN [status |-> 401, code |-> ""]
  ELSE [status |-> 500, code |-> ""]

\* Mutant: only an absent header is refused; a header of another scheme has
\* its first seven characters cut off and the rest verified.
AuthHeaderMissing_OnlyAbsent(header) == header = NoToken

\* No Authorization header, a header that does not start with "Bearer ",
\* or nothing after the prefix.
AuthHeaderMissing(header) == header \in {NoToken, NonBearer, EmptyBearer}

\* Mutant: the middleware trusts the token and does not look at the lock.
AuthLockCheck_Never(u) == FALSE

AuthLockCheck(u) == isLocked(u)

\* Mutant: a user with no stored session is turned away.
Authenticate_NeedsSession(header) ==
  LET uid == FindById(header.userId)
      rej(st) == [status |-> st, uid |-> 0, code |-> ""]
  IN  IF AuthHeaderMissing(header)
      THEN rej(401)
      ELSE IF ~verifyAccessToken(header)
      THEN [status |-> AuthenticateCatch(AccessTokenError(header)).status,
            uid |-> 0,
            code |-> AuthenticateCatch(AccessTokenError(header)).code]
      ELSE IF uid = 0
      THEN rej(401)
      ELSE IF AuthLockCheck(users[uid])
      THEN rej(423)
      ELSE IF users[uid].refreshTokens = <<>>
      THEN rej(401)
      ELSE [status |-> 0, uid |-> uid, code |-> ""]

Authenticate(header) ==
  LET uid == FindById(header.userId)
      rej(st) == [status |-> st, uid |-> 0, code |-> ""]
  IN  IF AuthHeaderMissing(header)
      THEN rej(401)
      ELSE IF ~verifyAccessToken(header)
      THEN [status |-> AuthenticateCatch(AccessTokenError(header)).status,
            uid |-> 0,
            code |-> AuthenticateCatch(AccessTokenError(header)).code]
      ELSE IF uid = 0
      THEN rej(401)
      ELSE IF AuthLockCheck(users[uid])
      THEN rej(423)
      ELSE [status |-> 0, uid |-> uid, code |-> ""]

\* Mutant: optional mode attaches whoever the token names, locked or not.
OptionalLockCheck_Never(u) == FALSE

OptionalLockCheck(u) == isLocked(u)

\* optionalAuth: how many times it calls next(), the status it answers with
\* itself (0: it sends nothing) and the user it attaches (0: none).
OptionalAuth(header) ==
  LET uid == FindById(header.userId)
      pass(u) == [nexts |-> 1, status |-> 0, uid |-> u]
  IN  IF AuthHeaderMissing(header)
      THEN pass(0)
      ELSE IF ~verifyAccessToken(header)
      THEN pass(0)
      ELSE IF uid # 0 /\ ~OptionalLockCheck(users[uid])
      THEN pass(uid)
      ELSE pass(0)

\* authorize(...roles): the status it answers with, 0 when it calls next().
\* principal is the user attached to the request, 0 when there is none.
Roles == {"user", "admin"}

\* Mutant: any attached principal passes, whatever its role.
Authorize_AnyRole(roles, principal) ==
  IF principal = 0 THEN [status |-> 401] ELSE [status |-> 0]

Authorize(roles, principal) ==
  IF principal = 0 THEN [status |-> 401]
  ELSE IF users[principal].role \notin roles THEN [status |-> 403]
  ELSE [status |-> 0]

(***************************************************************************)
(* POST /logout, POST /logout-all, PUT /change-password                    *)
(***************************************************************************)
\* Mutant: naming a token ends every session of the caller.
LogoutHandler_ClearsAll(uid, tok) ==
  IF tok # NoToken
  THEN Out([users EXCEPT ![uid].refreshTokens = <<>>], Reply("logout", 200))
  ELSE Out(users, Reply("logout", 200))

\* Mutant: the named token is removed from whichever set holds it.
LogoutHandler_AnyOwner(uid, tok) ==
  IF tok # NoToken
  THEN Out([u \in DOMAIN users |-> removeRefreshToken(users[u], tok)],
           Reply("logout", 200))
  ELSE Out(users, Reply("logout", 200))

LogoutHandler(uid, tok) ==
  IF tok # NoToken
  THEN Out([users EXCEPT ![uid] = removeRefreshToken(@, tok)], Reply("logout", 200))
  ELSE Out(users, Reply("logout", 200))

\* Mutant: the cleared array is never saved.
LogoutAllHandler_NotSaved(uid) == Out(users, Reply("logout-all", 200))

LogoutAllHandler(uid) ==
  Out([users EXCEPT ![uid].refreshTokens = <<>>], Reply("logout-all", 200))

\* Mutant: the current password is asked for and not verified.
ChangePasswordCheck_Skipped(u, currentPassword) == TRUE

\* user.comparePassword(currentPassword)
ChangePasswordCheck(u, currentPassword) == comparePassword(u, currentPassword)

ChangePasswordHandler(uid, currentPassword, newPassword, salt) ==
  IF currentPassword = "" \/ newPassword = ""
  THEN Out(users, Reply("change-password", 400))
  ELSE IF Len(newPassword) < MIN_PASSWORD
  THEN Out(users, Reply("change-password", 400))
  ELSE IF ~ChangePasswordCheck(users[uid], currentPassword)
  THEN Out(users, Reply("change-password", 400))
  ELSE Out([users EXCEPT ![uid].password = Hash(newPassword, salt),
                         ![uid].refreshTokens = <<>>],
           Reply("change-password", 200))

(***************************************************************************)
(* PUT /me                                                                 *)
(***************************************************************************)
Themes == {"light", "dark", "system"}

\* User.updateProfile(updates): sets the fields the handler collected.
updateProfile(u, updates) ==
  [u EXCEPT !.name = IF updates.name # Absent THEN updates.name ELSE @,
            !.theme = IF updates.theme # Absent THEN updates.theme ELSE @]

\* Mutant: an email field in the body is ignored instead of refused.
PutMeEmailCheck_Never(body) == FALSE

PutMeEmailCheck(body) == body.email # Absent

PutMeHandler(uid, body) ==
  IF body.name # Absent /\ (body.name = "" \/ Len(Trim(body.name)) = 0)
  THEN Out(users, Reply("put-me", 400))
  ELSE IF body.name # Absent /\ Len(Trim(body.name)) < 2
  THEN Out(users, Reply("put-me", 400))
  ELSE IF body.name # Absent /\ Len(Trim(body.name)) > 50
  THEN Out(users, Reply("put-me", 400))
  ELSE IF body.theme # Absent /\ body.theme \notin Themes
  THEN Out(users, Reply("put-me", 400))
  ELSE IF PutMeEmailCheck(body)
  THEN Out(users, Reply("put-me", 400))
  ELSE LET updates == [name |-> IF body.name # Absent THEN Trim(body.name) ELSE Absent,
                       theme |-> body.theme]
       IN  Out([users EXCEPT ![uid] = updateProfile(@, updates)],
               Reply("put-me", 200))

(***************************************************************************)
(* History of the lockout, kept per user beside the record: the run of     *)
(* failed password checks in progress, when its fifth failure happened,    *)
(* whether the run began on an expired lock, whether a logout-all has      *)
(* happened since the last successful login, and the newest session token  *)
(* that a password change has revoked.                                     *)
(***************************************************************************)
NewHist ==
  [streak |-> 0, t5 |-> NoTime, relock |-> FALSE, loa |-> FALSE, stale |-> NoToken]

HistAfterFailure(h, u) ==
  IF u.lockUntil # NoTime /\ u.lockUntil <= now
  THEN [h EXCEPT !.streak = 1, !.t5 = NoTime, !.relock = TRUE]
  ELSE IF h.streak + 1 = MAX_LOGIN_ATTEMPTS
       THEN [h EXCEPT !.streak = @ + 1, !.t5 = now]
       ELSE [h EXCEPT !.streak = IF @ > MAX_LOGIN_ATTEMPTS THEN @ ELSE @ + 1]

\* r is the outcome of a login request naming email.  A 401 for an existing
\* user is a failed password check; a 423 or a 429 is no password check.
HistAfterLogin(email, r) ==
  LET uid == FindOneByEmail(ToLowerCase(email))
  IN  IF uid = 0 THEN hist
      ELSE IF r.resp.status = 200
      THEN [hist EXCEPT ![uid] = [NewHist EXCEPT !.stale = hist[uid].stale]]
      ELSE IF r.resp.status = 401
      THEN [hist EXCEPT ![uid] = HistAfterFailure(@, users[uid])]
      ELSE hist

(***************************************************************************)
(* Actions                                                                 *)
(***************************************************************************)
Init ==
  /\ users = <<>>
  /\ now = 0
  /\ limiter = [c \in Clients |-> [hits |-> 0, resetTime |-> 0]]
  /\ hist = <<>>
  /\ inflight = <<>>
  /\ transcriptions = <<>>

\* Time passes; the limiter's store drops the windows that have ended.
LimiterExpire(t) ==
  [c \in Clients |->
     IF t >= limiter[c].resetTime THEN [hits |-> 0, resetTime |-> 0] ELSE limiter[c]]

Tick ==
  /\ \E t \in Instants : t > now /\ now' = t /\ limiter' = LimiterExpire(t)
  /\ UNCHANGED <<users, hist, inflight, transcriptions>>

\* The routes behind authLimiter: the limiter answers 429 itself, or the
\* handler runs.
RegisterRoute(c, name, email, password, salt) ==
  IF LimiterBlocks(c)
  THEN Out(users, Reply("register", 429))
  ELSE RegisterHandler(name, email, password, salt)

LoginRoute(c, email, password) ==
  IF LimiterBlocks(c)
  THEN Out(users, Reply("login", 429))
  ELSE LoginHandler(email, password)

\* The routes behind authenticate: the middleware answers itself, or the
\* handler runs for the user it attached.
LogoutRoute(header, tok) ==
  LET a == Authenticate(header)
  IN  IF a.status # 0 THEN Out(users, Reply("logout", a.status))
      ELSE LogoutHandler(a.uid, tok)

LogoutAllRoute(header) ==
  LET a == Authenticate(header)
  IN  IF a.status # 0 THEN Out(users, Reply("logout-all", a.status))
      ELSE LogoutAllHandler(a.uid)

ChangePasswordRoute(header, currentPassword, newPassword, salt) ==
  LET a == Authenticate(header)
  IN  IF a.status # 0 THEN Out(users, Reply("change-password", a.status))
      ELSE ChangePasswordHandler(a.uid, currentPassword, newPassword, salt)

Register(c, name, email, password, salt) ==
  LET r == RegisterRoute(c, name, email, password, salt)
  IN  /\ limiter' = [limiter EXCEPT ![c] = LimiterHit(c)]
      /\ users' = r.users
      /\ hist' = IF r.resp.status = 201 THEN Append(hist, NewHist) ELSE hist
      /\ UNCHANGED <<now, inflight, transcriptions>>

Login(c, email, password) ==
  LET r == LoginRoute(c, email, password)
  IN  /\ limiter' = [limiter EXCEPT ![c] = LimiterHit(c)]
      /\ users' = r.users
      /\ hist' = HistAfterLogin(email, r)
      /\ UNCHANGED <<now, inflight, transcriptions>>

Refresh(tok) ==
  /\ users' = RefreshHandler(tok).users
  /\ UNCHANGED <<now, limiter, hist, inflight, transcriptions>>

Logout(header, tok) ==
  /\ users' = LogoutRoute(header, tok).users
  /\ UNCHANGED <<now, limiter, hist, inflight, transcriptions>>

LogoutAll(header) ==
  LET r == LogoutAllRoute(header)
  IN  /\ users' = r.users
      /\ hist' = IF r.resp.status = 200
                 THEN [hist EXCEPT ![Authenticate(header).uid].loa = TRUE]
                 ELSE hist
      /\ UNCHANGED <<now, limiter, inflight, transcriptions>>

ChangePassword(header, currentPassword, newPassword, salt) ==
  /\ users' = ChangePasswordRoute(header, currentPassword, newPassword, salt).users
  /\ UNCHANGED <<now, limiter, hist, inflight, transcriptions>>

\* The same request, with the history noting the newest session that the
\* change revokes.
HistAfterChange(h, u) ==
  IF u.refreshTokens = <<>> THEN h
  ELSE [h EXCEPT !.stale = u.refreshTokens[Len(u.refreshTokens)].token]

ChangePasswordTracked(header, currentPassword, newPassword, salt) ==
  LET r == ChangePasswordRoute(header, currentPassword, newPassword, salt)
      uid == Authenticate(header).uid
  IN  /\ users' = r.users
      /\ hist' = IF r.resp.status = 200
                 THEN [hist EXCEPT ![uid] = HistAfterChange(@, users[uid])]
                 ELSE hist
      /\ UNCHANGED <<now, limiter, inflight, transcriptions>>

PutMeRoute(header, body) ==
  LET a == Authenticate(header)
  IN  IF a.status # 0 THEN Out(users, Reply("put-me", a.status))
      ELSE PutMeHandler(a.uid, body)

PutMe(header, body) ==
  /\ users' = PutMeRoute(header, body).users
  /\ UNCHANGED <<now, limiter, hist, inflight, transcriptions>>

\* A request the middleware rejects never has its body read: one body
\* stands for all of them.
BodiesBehind(header, bodies) ==
  IF Authenticate(header).status = 0 THEN bodies ELSE {CHOOSE b \in bodies : TRUE}

\* The requests that are the same in every specification of the module.
NextCommon ==
  \/ Tick
  \/ \E c \in Clients, b \in RegisterBodies, s \in Salts :
       Register(c, b[1], b[2], b[3], s)
  \/ \E c \in Clients, b \in LoginBodies : Login(c, b[1], b[2])
  \/ \E tok \in RefreshInputs : Refresh(tok)
  \/ \E header \in HeaderInputs :
       \E tok \in BodiesBehind(header, LogoutBodies) : Logout(header, tok)
  \/ \E header \in HeaderInputs : LogoutAll(header)

Next ==
  \/ NextCommon
  \/ \E header \in HeaderInputs, s \in Salts :
       \E b \in BodiesBehind(header, ChangePasswordBodies) :
         ChangePassword(header, b[1], b[2], s)

Spec == Init /\ [][Next]_vars

(***************************************************************************)
(* The same requests, with password changes noted in the history.          *)
(***************************************************************************)
NextS ==
  \/ NextCommon
  \/ \E header \in HeaderInputs, s \in Salts :
       \E b \in BodiesBehind(header, ChangePasswordBodies) :
         ChangePasswordTracked(header, b[1], b[2], s)

SpecS == Init /\ [][NextS]_vars

(***************************************************************************)
(* Overlapping register requests.  A request awaits findOne, then save:    *)
(* another request can run between the two.                                *)
(***************************************************************************)
\* The request passes the limiter, validation and the existence check.
RegisterBegin(c, name, email, password, salt) ==
  /\ Len(inflight) < MaxInflight
  /\ ~LimiterBlocks(c)
  /\ RegisterCheck(name, email, password) = 0
  /\ limiter' = [limiter EXCEPT ![c] = LimiterHit(c)]
  /\ inflight' = Append(inflight, [name |-> name, email |-> ToLowerCase(email),
                                   password |-> password, salt |-> salt])
  /\ UNCHANGED <<users, now, hist, transcriptions>>

RegisterSaveOf(req) == RegisterSave(req.name, req.email, req.password, req.salt)

\* The request saves and answers.
RegisterFinish(k) ==
  LET r == RegisterSaveOf(inflight[k])
  IN  /\ users' = r.users
      /\ hist' = IF r.resp.status = 201 THEN Append(hist, NewHist) ELSE hist
      /\ inflight' = [i \in 1..(Len(inflight) - 1) |->
                        IF i < k THEN inflight[i] ELSE inflight[i + 1]]
      /\ UNCHANGED <<now, limiter, transcriptions>>

\* The requests that create a record or read the e-mail, with register
\* taken whole or in its two halves.
NextC ==
  \/ Tick
  \/ \E c \in Clients, b \in RegisterBodies, s \in Salts :
       Register(c, b[1], b[2], b[3], s)
  \/ \E c \in Clients, b \in LoginBodies : Login(c, b[1], b[2])
  \/ \E c \in Clients, b \in RegisterBodies, s \in Salts :
       RegisterBegin(c, b[1], b[2], b[3], s)
  \/ \E k \in 1..Len(inflight) : RegisterFinish(k)

SpecC == Init /\ [][NextC]_vars

(***************************************************************************)
(* The auth routes together with the profile update, which writes fields   *)
(* that no auth route reads.                                               *)
(***************************************************************************)
NextP ==
  \/ Next
  \/ \E header \in HeaderInputs :
       \E body \in BodiesBehind(header, ProfileBodies) : PutMe(header, body)

SpecP == Init /\ [][NextP]_vars

\* ---- POST /refresh, its awaits taken one at a time ----
\* A request in flight holds the document it loaded with findById and works
\* on it; each awaited User method saves the fields it modified.

NoReply == Reply("pending", 0)

\* Another refresh of the same token has passed the membership check and
\* none of its writes has landed.
RefreshOverlaps(tok) ==
  \E j \in 1..Len(inflight) :
    /\ inflight[j].op = "refresh"
    /\ inflight[j].old = tok
    /\ inflight[j].pc = "checked"

\* findById, the membership check on the loaded document and the new pair
\* (auth.js 209-235); the requests answered 401 write nothing and are the
\* action Refresh.
RefreshBegin(tok) ==
  /\ Len(inflight) < MaxInflight
  /\ RefreshHandler(tok).resp.status = 200
  /\ LET uid == FindById(tok.userId)
     IN  inflight' = Append(inflight,
           [op |-> "refresh", pc |-> "checked", uid |-> uid, doc |-> users[uid],
            old |-> tok, pair |-> generateTokenPair(uid),
            overlap |-> RefreshOverlaps(tok), resp |-> NoReply])
  /\ UNCHANGED <<users, now, limiter, hist, transcriptions>>

\* Mutant: the removal is refused when the stored set no longer holds the
\* old token.
RefreshRemoveOf_Conditional(req) ==
  IF req.old \in TokenSet(users[req.uid])
  THEN [req EXCEPT !.pc = "removed", !.doc = removeRefreshToken(@, req.old)]
  ELSE [req EXCEPT !.pc = "done", !.resp = Reply("refresh", 401)]

\* await user.removeRefreshToken(refreshToken)
RefreshRemoveOf(req) ==
  [req EXCEPT !.pc = "removed", !.doc = removeRefreshToken(@, req.old)]

\* await user.addRefreshToken(newRefreshToken) and the answer
RefreshAddOf(req) ==
  [req EXCEPT !.pc = "done",
              !.doc = addRefreshToken(@, req.pair.refreshToken),
              !.resp = ReplyTokens("refresh", 200, req.pair)]

\* The save of a document whose refreshTokens were modified.
SaveTokens(req) ==
  IF req.resp.status \in {0, 200}
  THEN [users EXCEPT ![req.uid].refreshTokens = req.doc.refreshTokens]
  ELSE users

RefreshRemove(k) ==
  /\ inflight[k].op = "refresh"
  /\ inflight[k].pc = "checked"
  /\ inflight' = [inflight EXCEPT ![k] = RefreshRemoveOf(@)]
  /\ users' = SaveTokens(RefreshRemoveOf(inflight[k]))
  /\ UNCHANGED <<now, limiter, hist, transcriptions>>

RefreshAdd(k) ==
  /\ inflight[k].op = "refresh"
  /\ inflight[k].pc = "removed"
  /\ inflight' = [inflight EXCEPT ![k] = RefreshAddOf(@)]
  /\ users' = SaveTokens(RefreshAddOf(inflight[k]))
  /\ UNCHANGED <<now, limiter, hist, transcriptions>>

\* A session is opened by register; refresh runs whole or await by await,
\* at most MaxInflight of them overlapping.
NextR ==
  \/ Tick
  \/ \E c \in Clients, b \in RegisterBodies, s \in Salts :
       Register(c, b[1], b[2], b[3], s)
  \/ \E tok \in RefreshInputs : Refresh(tok)
  \/ \E tok \in RefreshInputs : RefreshBegin(tok)
  \/ \E k \in 1..Len(inflight) : RefreshRemove(k)
  \/ \E k \in 1..Len(inflight) : RefreshAdd(k)

SpecR == Init /\ [][NextR]_vars

\* ---- POST /login, its awaits taken one at a time ----

\* Another login of the same user has read the record and written nothing.
LoginOverlaps(uid) ==
  \E j \in 1..Len(inflight) :
    /\ inflight[j].op = "login"
    /\ inflight[j].uid = uid
    /\ inflight[j].pc = "read"

\* Mutant: the comparison is not made.
LoginPasswordCheck_Skipped(doc, password) == TRUE

\* await user.comparePassword(password), on the document findOne returned
LoginPasswordCheck(doc, password) == comparePassword(doc, password)

\* findOne, the lock check and the password comparison on the loaded
\* document (auth.js 122-143); the requests answered 400, 401 for an unknown
\* address, 423 and 429 write nothing and are the action Login.
LoginBegin(c, email, password) ==
  LET uid == FindOneByEmail(ToLowerCase(email))
  IN  /\ Len(inflight) < MaxInflight
      /\ ~LimiterBlocks(c)
      /\ email # "" /\ password # ""
      /\ uid # 0
      /\ ~LoginLockCheck(users[uid])
      /\ limiter' = [limiter EXCEPT ![c] = LimiterHit(c)]
      /\ inflight' = Append(inflight,
            [op |-> "login", pc |-> "read", uid |-> uid, doc |-> users[uid],
             password |-> password,
             ok |-> LoginPasswordCheck(users[uid], password),
             overlap |-> LoginOverlaps(uid), lockedAtAnswer |-> FALSE,
             resp |-> NoReply])
      /\ UNCHANGED <<users, now, hist, transcriptions>>

\* await user.incLoginAttempts() and the 401
LoginFailOf(req) ==
  [req EXCEPT !.pc = "done", !.doc = LoginFailure(@),
              !.resp = Reply("login", 401)]

\* await user.resetLoginAttempts()
LoginResetOf(req) == [req EXCEPT !.pc = "reset", !.doc = resetLoginAttempts(@)]

\* user.lastLogin = new Date(); await user.save()
LoginSaveOf(req) == [req EXCEPT !.pc = "saved", !.doc.lastLogin = now]

\* Mutant: the lock is read again before the session is stored.
LoginAddOf_RechecksLock(req) ==
  IF isLocked(users[req.uid])
  THEN [req EXCEPT !.pc = "done", !.resp = Reply("login", 423),
                   !.lockedAtAnswer = TRUE]
  ELSE [req EXCEPT !.pc = "done",
                   !.doc = addRefreshToken(@, generateTokenPair(req.uid).refreshToken),
                   !.resp = ReplyTokens("login", 200, generateTokenPair(req.uid))]

\* generateTokenPair, await user.addRefreshToken(refreshToken) and the answer
LoginAddOf(req) ==
  [req EXCEPT !.pc = "done",
              !.doc = addRefreshToken(@, generateTokenPair(req.uid).refreshToken),
              !.resp = ReplyTokens("login", 200, generateTokenPair(req.uid)),
              !.lockedAtAnswer = isLocked(users[req.uid])]

\* The save of a document: the fields it modified since it was loaded or
\* last saved are written, the others are left as the store has them.
SaveModified(before, after) ==
  LET f(field, stored) ==
        IF after.doc[field] # before.doc[field] THEN after.doc[field] ELSE stored
  IN  [users EXCEPT ![after.uid] =
         [name |-> @.name, email |-> @.email, password |-> @.password,
          theme |-> @.theme, role |-> @.role,
          loginAttempts |-> f("loginAttempts", @.loginAttempts),
          lockUntil |-> f("lockUntil", @.lockUntil),
          refreshTokens |-> f("refreshTokens", @.refreshTokens),
          lastLogin |-> f("lastLogin", @.lastLogin)]]

\* The write of resetLoginAttempts: the count is set to 0 and lockUntil is
\* cleared, whatever the store holds.
SaveReset(req) ==
  [users EXCEPT ![req.uid].loginAttempts = 0, ![req.uid].lockUntil = NoTime]

LoginStep(k, pcs, after, saved) ==
  /\ inflight[k].op = "login"
  /\ inflight[k].pc \in pcs
  /\ inflight' = [inflight EXCEPT ![k] = after]
  /\ users' = saved
  /\ UNCHANGED <<now, limiter, hist, transcriptions>>

LoginFail(k) ==
  /\ ~inflight[k].ok
  /\ LoginStep(k, {"read"}, LoginFailOf(inflight[k]),
               SaveModified(inflight[k], LoginFailOf(inflight[k])))

LoginReset(k) ==
  /\ inflight[k].ok
  /\ inflight[k].doc.loginAttempts > 0
  /\ LoginStep(k, {"read"}, LoginResetOf(inflight[k]), SaveReset(inflight[k]))

LoginSave(k) ==
  /\ inflight[k].ok
  /\ inflight[k].pc = "read" => inflight[k].doc.loginAttempts = 0
  /\ LoginStep(k, {"read", "reset"}, LoginSaveOf(inflight[k]),
               SaveModified(inflight[k], LoginSaveOf(inflight[k])))

LoginAdd(k) ==
  LoginStep(k, {"saved"}, LoginAddOf(inflight[k]),
            SaveModified(inflight[k], LoginAddOf(inflight[k])))

\* POST /login run whole, the ghost history left alone.
LoginWhole(c, email, password) ==
  /\ limiter' = [limiter EXCEPT ![c] = LimiterHit(c)]
  /\ users' = LoginRoute(c, email, password).users
  /\ UNCHANGED <<now, hist, inflight, transcriptions>>

\* The login bodies the handler answers without a session.
RefusedLoginBodies ==
  {b \in LoginBodies : LoginHandler(b[1], b[2]).resp.status # 200}

\* Register creates the account; the refused logins run whole, and up to
\* MaxInflight logins that reach the password comparison run await by
\* await, overlapping each other and the former.
NextL ==
  \/ Tick
  \/ \E c \in Clients, b \in RegisterBodies, s \in Salts :
       Register(c, b[1], b[2], b[3], s)
  \/ \E c \in Clients, b \in RefusedLoginBodies : LoginWhole(c, b[1], b[2])
  \/ \E c \in Clients, b \in LoginBodies : LoginBegin(c, b[1], b[2])
  \/ \E k \in 1..Len(inflight) : LoginFail(k)
  \/ \E k \in 1..Len(inflight) : LoginReset(k)
  \/ \E k \in 1..Len(inflight) : LoginSave(k)
  \/ \E k \in 1..Len(inflight) : LoginAdd(k)

SpecL == Init /\ [][NextL]_vars

\* ---- two accounts ----
\* Request bodies of POST /register for two different addresses; the second
\* account takes the id that no record has in the other specifications.
TwoUserBodies ==
  {<<"Ann", "a@x.com", "secret1">>, <<"Bob", "b@x.com", "secret1">>}

\* Two users register and then refresh and end sessions, their own or,
\* by name, each other's.
NextM ==
  \/ Tick
  \/ \E c \in Clients, b \in TwoUserBodies, s \in Salts :
       Register(c, b[1], b[2], b[3], s)
  \/ \E tok \in RefreshInputs : Refresh(tok)
  \/ \E header \in HeaderInputs :
       \E tok \in BodiesBehind(header, LogoutBodies) : Logout(header, tok)
  \/ \E header \in HeaderInputs : LogoutAll(header)

SpecM == Init /\ [][NextM]_vars

\* ---- /api/transcriptions, every route behind authenticate ----
\* transcriptions[id] is the document with that id, NoDoc once it has been
\* deleted; ids are handed out in order and never again.
MaxDocs == 2

NoDoc == [user |-> 0, status |-> "none"]

\* req.file of an upload: absent or an audio file.
Files == {"none", "audio"}
\* What transcribeAudioFromBuffer does: a result, a failure result, a throw.
TranscribeResults == {"ok", "failed", "thrown"}
\* :id of a request: 0 is a string that is no ObjectId, the others are ids,
\* one of them never handed out.
IdInputs == 0..(MaxDocs + 1)
\* page and limit of the list query.
Pages == {1, 2}
Limits == {1, 20}

ReplyDoc(status, data) == [status |-> status, data |-> data]
OutDocs(docs, r) == [docs |-> docs, resp |-> r]

\* Transcription.findById(id): 0 when there is no such document.
FindDocById(id) ==
  IF id \in 1..Len(transcriptions) /\ transcriptions[id] # NoDoc THEN id ELSE 0

\* Mutant: everybody owns every document.
isOwnedBy_Always(doc, userId) == TRUE

\* transcriptionSchema.methods.isOwnedBy
isOwnedBy(doc, userId) == doc.user = userId

\* POST /: the document is saved as processing, then marked by the result.
PostTranscription(uid, file, result) ==
  IF file = "none"
  THEN OutDocs(transcriptions, ReplyDoc(400, 0))
  ELSE LET id == Len(transcriptions) + 1
           st == IF result = "ok" THEN "completed"
                 ELSE IF result = "failed" THEN "failed" ELSE "processing"
       IN  OutDocs(Append(transcriptions, [user |-> uid, status |-> st]),
                   IF result = "ok" THEN ReplyDoc(200, id) ELSE ReplyDoc(500, 0))

\* Mutant: the list is not filtered by user.
findByUser_Everybody(userId) ==
  SelectSeq([i \in 1..Len(transcriptions) |-> Len(transcriptions) + 1 - i],
            LAMBDA i : transcriptions[i] # NoDoc)

\* Transcription.findByUser: the ids of the user's documents, newest first.
findByUser(userId) ==
  SelectSeq([i \in 1..Len(transcriptions) |-> Len(transcriptions) + 1 - i],
            LAMBDA i : transcriptions[i] # NoDoc /\ transcriptions[i].user = userId)

\* GET /: one page of the caller's documents.
ListTranscriptions(uid, page, limit) ==
  LET mine == findByUser(uid)
      skip == (page - 1) * limit
      last == IF skip + limit < Len(mine) THEN skip + limit ELSE Len(mine)
  IN  ReplyDoc(200, SubSeq(mine, skip + 1, last))

\* GET /:id
GetTranscription(uid, id) ==
  IF id = 0 THEN ReplyDoc(500, NoDoc)
  ELSE IF FindDocById(id) = 0 THEN ReplyDoc(404, NoDoc)
  ELSE IF ~isOwnedBy(transcriptions[id], uid) THEN ReplyDoc(403, NoDoc)
  ELSE ReplyDoc(200, transcriptions[id])

\* DELETE /:id
DeleteTranscription(uid, id) ==
  IF id = 0 THEN OutDocs(transcriptions, ReplyDoc(500, 0))
  ELSE IF FindDocById(id) = 0 THEN OutDocs(transcriptions, ReplyDoc(404, 0))
  ELSE IF ~isOwnedBy(transcriptions[id], uid)
  THEN OutDocs(transcriptions, ReplyDoc(403, 0))
  ELSE OutDocs([transcriptions EXCEPT ![id] = NoDoc], ReplyDoc(200, id))

\* router.use(authenticate): the routes as a request with a header sees them.
ListRoute(header, page, limit) ==
  LET a == Authenticate(header)
  IN  IF a.status # 0 THEN ReplyDoc(a.status, <<>>)
      ELSE ListTranscriptions(a.uid, page, limit)

GetRoute(header, id) ==
  LET a == Authenticate(header)
  IN  IF a.status # 0 THEN ReplyDoc(a.status, NoDoc)
      ELSE GetTranscription(a.uid, id)

DeleteRoute(header, id) ==
  LET a == Authenticate(header)
  IN  IF a.status # 0 THEN OutDocs(transcriptions, ReplyDoc(a.status, 0))
      ELSE DeleteTranscription(a.uid, id)

PostRoute(header, file, result) ==
  LET a == Authenticate(header)
  IN  IF a.status # 0 THEN OutDocs(transcriptions, ReplyDoc(a.status, 0))
      ELSE PostTranscription(a.uid, file, result)

Upload(header, file, result) ==
  /\ Len(transcriptions) < MaxDocs
  /\ transcriptions' = PostRoute(header, file, result).docs
  /\ UNCHANGED <<users, now, limiter, hist, inflight>>

Delete(header, id) ==
  /\ transcriptions' = DeleteRoute(header, id).docs
  /\ UNCHANGED <<users, now, limiter, hist, inflight>>

\* Two users register, upload and delete, all within the life of their
\* access tokens.
NextT ==
  \/ \E c \in Clients, b \in TwoUserBodies, s \in Salts :
       Register(c, b[1], b[2], b[3], s)
  \/ \E header \in HeaderInputs :
       \E b \in BodiesBehind(header, Files \X TranscribeResults) :
         Upload(header, b[1], b[2])
  \/ \E header \in HeaderInputs :
       \E id \in BodiesBehind(header, IdInputs) : Delete(header, id)

SpecT == Init /\ [][NextT]_vars

(***************************************************************************)
(* Properties                                                              *)
(***************************************************************************)
UserIds == 1..Len(users)
\* Login requests that carry both fields and name the user uid.
LoginRequestsFor(uid) ==
  {b \in LoginBodies : b[1] # "" /\ b[2] # "" /\ FindOneByEmail(ToLowerCase(b[1])) = uid}
NoTokens(r) == r.resp.accessToken = NoToken /\ r.resp.refreshToken = NoToken

C2_LockedLoginWritesNothing ==
  \A uid \in UserIds :
    users[uid].lockUntil > now =>
      \A b \in LoginRequestsFor(uid) :
        LoginHandler(b[1], b[2]) = Out(users, Reply("login", 423))

\* A locked user with a successful login and live sessions on record, for
\* whom both a wrong and the correct password are turned away.
C2_Witness ==
  \E uid \in UserIds :
    /\ users[uid].lockUntil > now
    /\ users[uid].lastLogin # NoTime
    /\ users[uid].refreshTokens # <<>>
    /\ \E b \in LoginRequestsFor(uid) : comparePassword(users[uid], b[2])
    /\ \E b \in LoginRequestsFor(uid) : ~comparePassword(users[uid], b[2])
    /\ \A b \in LoginRequestsFor(uid) : LoginHandler(b[1], b[2]).resp.status = 423


\* C3: refresh-token rotation.  Whenever a refresh call presenting T
\* succeeds, a refresh call presenting the same T right after it is answered
\* 401, whatever the time of the first call relative to T's issuance.
C3_ReplayFails ==
  [][\A tok \in RefreshInputs :
       RefreshHandler(tok).resp.status = 200 /\ Refresh(tok) =>
         (RefreshHandler(tok).resp.status = 401)']_vars


\* C4: a refresh call returns a token pair only if the presented token
\* verifies as an unexpired refresh token, its subject has a user record and
\* the token is in that user's refreshTokens; a signed, unexpired refresh
\* token that is not in the set gets 401 and no tokens.
C4_RefreshNeedsMembership ==
  \A tok \in RefreshInputs :
    LET r == RefreshHandler(tok)
    IN  /\ r.resp.status = 200 \/ ~NoTokens(r) =>
              /\ verifyRefreshToken(tok)
              /\ tok.userId \in UserIds
              /\ tok \in TokenSet(users[tok.userId])
        /\ r.resp.status \in {200, 401}
        /\ r.resp.status = 401 => NoTokens(r) /\ r.users = users

\* A user holds a live session, and a signed, unexpired refresh token of
\* that user which is not in the set is refused while the stored one is
\* honoured.
C4_Witness ==
  \E uid \in UserIds :
    /\ \E tok \in RefreshInputs :
         /\ verifyRefreshToken(tok) /\ tok.userId = uid
         /\ tok \notin TokenSet(users[uid])
         /\ RefreshHandler(tok).resp.status = 401
    /\ \E tok \in TokenSet(users[uid]) : RefreshHandler(tok).resp.status = 200

\* C5: from a completed logout-all until the user's next successful login,
\* every refresh call presenting a refresh token of that user is answered
\* 401 without tokens.
C5_LogoutAllRevokes ==
  \A uid \in UserIds :
    hist[uid].loa =>
      \A tok \in RefreshInputs :
        tok.userId = uid =>
          RefreshHandler(tok).resp.status = 401 /\ NoTokens(RefreshHandler(tok))

\* After a logout-all, the token minted by the user's last login, still
\* unexpired, is refused.
C5_Witness ==
  \E uid \in UserIds :
    /\ hist[uid].loa
    /\ users[uid].lastLogin # NoTime
    /\ verifyRefreshToken(Token("refresh", uid, users[uid].lastLogin))
    /\ RefreshHandler(Token("refresh", uid, users[uid].lastLogin)).resp.status = 401

\* C6: a change-password request that succeeds leaves the user's
\* refreshTokens set empty, with the new password accepted and the old one
\* (when it is another password) refused; and from then on every refresh
\* call presenting a session token that the change revoked fails.
C6_ChangePasswordRevokes ==
  /\ \A header \in HeaderInputs, b \in ChangePasswordBodies, s \in Salts :
       LET r == ChangePasswordRoute(header, b[1], b[2], s)
           who == Authenticate(header).uid
       IN  r.resp.status = 200 =>
             /\ r.users[who].refreshTokens = <<>>
             /\ comparePassword(r.users[who], b[2])
             /\ b[1] # b[2] => ~comparePassword(r.users[who], b[1])
  /\ \A u \in UserIds :
       hist[u].stale # NoToken =>
         RefreshHandler(hist[u].stale).resp.status = 401

\* C7: no user's refreshTokens collection ever holds more than
\* MAX_REFRESH_TOKENS entries.
C7_AtMostFiveTokens ==
  \A uid \in UserIds : Len(users[uid].refreshTokens) <= MAX_REFRESH_TOKENS

\* A user with a full set logs in once more, and the set still holds five.
C7_Witness ==
  \E uid \in UserIds :
    /\ Len(users[uid].refreshTokens) = MAX_REFRESH_TOKENS
    /\ \E b \in LoginRequestsFor(uid) :
         /\ LoginHandler(b[1], b[2]).resp.status = 200
         /\ Len(LoginHandler(b[1], b[2]).users[uid].refreshTokens) = MAX_REFRESH_TOKENS

\* C8: a login that appends to a full set removes the entry appended
\* earliest and keeps the others in order; the token of that sixth-oldest
\* session is then no longer in the set refresh consults, while the tokens
\* of the five newer sessions are.
C8_OldestSessionEvicted ==
  \A uid \in UserIds :
    \A b \in LoginRequestsFor(uid) :
      LET r == LoginHandler(b[1], b[2])
          old == users[uid].refreshTokens
          new == r.users[uid].refreshTokens
      IN  r.resp.status = 200 /\ Len(old) = MAX_REFRESH_TOKENS =>
            /\ new = Append(Tail(old), [token |-> r.resp.refreshToken, createdAt |-> now])
            /\ Head(old).token \notin TokenSet(r.users[uid])
            /\ \A i \in 2..Len(old) : old[i].token \in TokenSet(r.users[uid])

\* C9: a login request with the correct password for a user who is not
\* locked (no failures, some failures, or a lock that has run out) is
\* answered 200 with a token pair for that user and leaves loginAttempts at
\* 0 and lockUntil cleared.
C9_CorrectLoginResets ==
  \A uid \in UserIds :
    \A b \in LoginRequestsFor(uid) :
      ~(users[uid].lockUntil # NoTime /\ users[uid].lockUntil > now)
        /\ users[uid].password.of = b[2] =>
          LET r == LoginHandler(b[1], b[2])
          IN  /\ r.resp.status = 200
              /\ r.resp.accessToken = Token("access", uid, now)
              /\ r.resp.refreshToken = Token("refresh", uid, now)
              /\ r.users[uid].loginAttempts = 0
              /\ r.users[uid].lockUntil = NoTime

\* A lock has run out, and the correct password logs in and clears it.
C9_Witness ==
  \E uid \in UserIds :
    /\ users[uid].loginAttempts = MAX_LOGIN_ATTEMPTS
    /\ users[uid].lockUntil # NoTime /\ users[uid].lockUntil <= now
    /\ \E b \in LoginRequestsFor(uid) :
         /\ LoginHandler(b[1], b[2]).resp.status = 200
         /\ LoginHandler(b[1], b[2]).users[uid].lockUntil = NoTime

\* C10: a failed password check on a user whose lock has run out sets
\* loginAttempts to 1 and clears lockUntil; in the run of failures that
\* starts there the account is unlocked through the fourth failure and is
\* locked, for LOCK_TIME, by the fifth.
C10_ExpiredLockStartsNewWindow ==
  \A uid \in UserIds :
    /\ users[uid].lockUntil # NoTime /\ users[uid].lockUntil <= now =>
         \A b \in LoginRequestsFor(uid) :
           users[uid].password.of # b[2] =>
             LET r == LoginHandler(b[1], b[2])
             IN  /\ r.resp.status = 401
                 /\ r.users[uid].loginAttempts = 1
                 /\ r.users[uid].lockUntil = NoTime
    /\ hist[uid].relock =>
         /\ hist[uid].streak \in 1..MAX_LOGIN_ATTEMPTS
         /\ users[uid].loginAttempts = hist[uid].streak
         /\ hist[uid].streak < MAX_LOGIN_ATTEMPTS => users[uid].lockUntil = NoTime
         /\ hist[uid].streak = MAX_LOGIN_ATTEMPTS =>
               users[uid].lockUntil = hist[uid].t5 + LOCK_TIME

\* The account has been locked a second time, by the fifth failure of a run
\* that began after the first lock ran out.
C10_Witness ==
  \E uid \in UserIds :
    /\ hist[uid].relock
    /\ hist[uid].streak = MAX_LOGIN_ATTEMPTS
    /\ users[uid].lockUntil > now


\* The handlers behind authenticate, each for the request bodies that can
\* change a record: what the route does with a given header.
ProtectedRoutes(header) ==
  {LogoutAllRoute(header)}
    \cup {LogoutRoute(header, tok) :
             tok \in {NoToken} \cup UNION {TokenSet(users[u]) : u \in UserIds}}
    \cup {ChangePasswordRoute(header, b[1], b[2], s) :
             b \in ChangePasswordBodies, s \in Salts}

\* C11: a request carrying an access token that verifies, for a user who
\* is locked at that moment, is answered 423 by authenticate and the
\* protected handler does not run, whenever the token was issued.
C11_LockCheckedLive ==
  \A header \in HeaderInputs :
    verifyAccessToken(header) /\ header.userId \in UserIds
      /\ users[header.userId].lockUntil > now =>
        /\ Authenticate(header).status = 423
        /\ \A r \in ProtectedRoutes(header) :
             r.users = users /\ r.resp.status = 423

\* A user has been locked by a fifth failure, and a still-valid access
\* token signed no later than that failure is refused with 423.
C11_Witness ==
  \E uid \in UserIds :
    /\ hist[uid].streak = MAX_LOGIN_ATTEMPTS /\ hist[uid].t5 # NoTime
    /\ users[uid].lockUntil > now
    /\ \E header \in HeaderInputs :
         /\ header.userId = uid /\ verifyAccessToken(header)
         /\ header.iat <= hist[uid].t5
         /\ Authenticate(header).status = 423

\* C12: for a bearer token that fails verification authenticate answers
\* 401 with code TOKEN_EXPIRED when the token is an expired access token,
\* and 401 without that code for any other invalid token.
C12_ExpiredDistinguished ==
  \A header \in HeaderInputs :
    ~AuthHeaderMissing(header) /\ ~verifyAccessToken(header) =>
      /\ Authenticate(header).status = 401
      /\ Authenticate(header).code = "TOKEN_EXPIRED"
            <=> (header.kind = "access" /\ now >= header.iat + ACCESS_TTL)

\* C13: authenticate calls next exactly for a Bearer header whose token
\* verifies as an access token and names an existing user who is not
\* locked; a missing or non-Bearer header and an absent user are answered
\* 401; whenever it does not call next the handler leaves no trace and the
\* middleware's status is the response.
C13_HandlerOnlyBehindAuth ==
  \A header \in HeaderInputs :
    LET a == Authenticate(header)
    IN  /\ a.status = 0 <=>
              /\ header \notin {NoToken, NonBearer, EmptyBearer}
              /\ verifyAccessToken(header)
              /\ header.userId \in UserIds
              /\ ~isLocked(users[header.userId])
        /\ a.status = 0 => a.uid = header.userId
        /\ header \in {NoToken, NonBearer, EmptyBearer} => a.status = 401
        /\ verifyAccessToken(header) /\ header.userId \notin UserIds => a.status = 401
        /\ a.status # 0 =>
              \A r \in ProtectedRoutes(header) :
                r.users = users /\ r.resp.status = a.status /\ NoTokens(r)

\* With a live session on record, a header of another scheme and a valid
\* token naming no user are both answered 401 and leave the session alone,
\* while the user's own token reaches the logout-all handler.
C13_Witness ==
  \E uid \in UserIds :
    /\ users[uid].refreshTokens # <<>>
    /\ LogoutAllRoute(NonBearer) = Out(users, Reply("logout-all", 401))
    /\ \E header \in HeaderInputs :
         /\ verifyAccessToken(header) /\ header.userId \notin UserIds
         /\ LogoutAllRoute(header) = Out(users, Reply("logout-all", 401))
    /\ \E header \in HeaderInputs :
         /\ header.userId = uid
         /\ LogoutAllRoute(header).resp.status = 200
         /\ LogoutAllRoute(header).users # users


\* C14: optionalAuth never rejects: for every header it calls next once
\* and sends nothing itself, and it attaches a user exactly when the token
\* verifies, the user exists and the user is not locked.
C14_OptionalNeverRejects ==
  \A header \in HeaderInputs :
    LET o == OptionalAuth(header)
    IN  /\ o.nexts = 1 /\ o.status = 0
        /\ o.uid # 0 <=>
              /\ header \notin {NoToken, NonBearer, EmptyBearer}
              /\ verifyAccessToken(header)
              /\ header.userId \in UserIds
              /\ ~isLocked(users[header.userId])
        /\ o.uid # 0 => o.uid = header.userId

\* A locked user's valid token passes optional mode with nobody attached,
\* where the required mode answers 423.
C14_Witness ==
  \E uid \in UserIds :
    /\ users[uid].lockUntil > now
    /\ \E header \in HeaderInputs :
         /\ header.userId = uid /\ verifyAccessToken(header)
         /\ OptionalAuth(header) = [nexts |-> 1, status |-> 0, uid |-> 0]
         /\ Authenticate(header).status = 423

\* C15: authorize-by-role answers 403 when no principal is attached and
\* when the principal's role is not among the required roles, and calls
\* next only for an attached principal whose role is among them.
C15_ForbiddenWithoutRole ==
  \A roles \in SUBSET Roles :
    \A principal \in {0} \cup UserIds :
      Authorize(roles, principal).status =
        IF principal # 0 /\ users[principal].role \in roles THEN 0 ELSE 403


\* C15 (amended): authorize-by-role answers 401 when no principal is
\* attached, 403 when the attached principal's role is not among the
\* required roles, and calls next only for an attached principal whose role
\* is among them.
C15_UnauthorizedOrForbidden ==
  \A roles \in SUBSET Roles :
    \A principal \in {0} \cup UserIds :
      Authorize(roles, principal).status =
        IF principal = 0 THEN 401
        ELSE IF users[principal].role \in roles THEN 0 ELSE 403

\* A registered user is forbidden a route that requires another role, is
\* let through one that requires its own, and an anonymous request is
\* answered 401.
C15_Witness ==
  \E uid \in UserIds :
    /\ Authorize({"admin"}, uid).status = 403
    /\ Authorize({"user", "admin"}, uid).status = 0
    /\ Authorize({"user", "admin"}, 0).status = 401


C17_EmailUnique ==
  /\ \A i, j \in UserIds : i # j => users[i].email # users[j].email
  /\ \A k \in 1..Len(inflight) :
       FindOneByEmail(inflight[k].email) # 0 =>
         RegisterSaveOf(inflight[k]) = Out(users, Reply("register", 409))

\* Two requests for one email passed the check together; one has created
\* the user and the other is about to save.
C17_Witness ==
  /\ Len(users) = 1
  /\ \E k \in 1..Len(inflight) :
       /\ inflight[k].email = users[1].email
       /\ RegisterSaveOf(inflight[k]).resp.status = 409


\* C18: no step changes the email of an existing user, and an
\* update-profile request whose body has an email field is answered 400
\* and applies none of the fields sent with it.
C18_EmailImmutable ==
  /\ [][\A uid \in DOMAIN users : users'[uid].email = users[uid].email]_vars
  /\ [](\A header \in HeaderInputs, body \in ProfileBodies :
          Authenticate(header).status = 0 /\ body.email # Absent =>
            PutMeRoute(header, body) = Out(users, Reply("put-me", 400)))

\* A user has renamed itself through the profile update and kept its
\* email; a further update that carries a valid theme together with an
\* email field is refused whole.
C18_Witness ==
  \E uid \in UserIds :
    /\ users[uid].name = "Bo" /\ users[uid].email = "a@x.com"
    /\ \E header \in HeaderInputs, body \in ProfileBodies :
         /\ Authenticate(header).uid = uid
         /\ body.email # Absent /\ body.theme \in Themes
         /\ PutMeRoute(header, body) = Out(users, Reply("put-me", 400))


\* An address no register request of the model uses.
UnknownEmail == "z@x.com"

\* C19: for a given password, a login for an email with no user record
\* and a login with a wrong password for an existing, unlocked user get
\* the same status, 401, and the same message.
C19_NoUserEnumeration ==
  \A uid \in UserIds :
    \A b \in LoginRequestsFor(uid) :
      ~isLocked(users[uid]) /\ ~comparePassword(users[uid], b[2]) =>
        /\ FindOneByEmail(UnknownEmail) = 0
        /\ LoginHandler(b[1], b[2]).resp.status = 401
        /\ LoginHandler(UnknownEmail, b[2]).resp = LoginHandler(b[1], b[2]).resp
        /\ LoginMessage(UnknownEmail, b[2]) = LoginMessage(b[1], b[2])

\* An unlocked user with failures on record is sent a wrong password, and
\* the answer is the one an unknown address gets.
C19_Witness ==
  \E uid \in UserIds :
    /\ users[uid].loginAttempts > 0 /\ ~isLocked(users[uid])
    /\ \E b \in LoginRequestsFor(uid) :
         /\ ~comparePassword(users[uid], b[2])
         /\ LoginHandler(b[1], b[2]).resp = LoginHandler(UnknownEmail, b[2]).resp
         /\ LoginMessage(b[1], b[2]) = LoginMessage(UnknownEmail, b[2])

\* C20: a client that has made RATE_MAX register or login requests in the
\* running window gets 429 for every further register or login request of
\* that window, whatever it carries, and the handler does not run; below
\* that count the request reaches the handler.
C20_Throttled ==
  \A c \in Clients :
    /\ limiter[c].hits >= RATE_MAX /\ now < limiter[c].resetTime =>
         /\ \A b \in RegisterBodies, s \in Salts :
              RegisterRoute(c, b[1], b[2], b[3], s) = Out(users, Reply("register", 429))
         /\ \A b \in LoginBodies :
              LoginRoute(c, b[1], b[2]) = Out(users, Reply("login", 429))
    /\ limiter[c].hits < RATE_MAX \/ now >= limiter[c].resetTime =>
         /\ \A b \in RegisterBodies, s \in Salts :
              RegisterRoute(c, b[1], b[2], b[3], s) = RegisterHandler(b[1], b[2], b[3], s)
         /\ \A b \in LoginBodies :
              LoginRoute(c, b[1], b[2]) = LoginHandler(b[1], b[2])

\* The window is used up, and a login that the handler would answer 200
\* and one that it would count as a failure both get 429.
C20_Witness ==
  \E c \in Clients :
    /\ limiter[c].hits >= RATE_MAX /\ now < limiter[c].resetTime
    /\ \E b \in LoginBodies :
         /\ LoginHandler(b[1], b[2]).resp.status = 200
         /\ LoginRoute(c, b[1], b[2]) = Out(users, Reply("login", 429))
    /\ \E b \in LoginBodies :
         /\ LoginHandler(b[1], b[2]).resp.status = 401
         /\ LoginHandler(b[1], b[2]).users # users
         /\ LoginRoute(c, b[1], b[2]) = Out(users, Reply("login", 429))


\* The headers that authenticate lets through for user uid.
HeadersOf(uid) ==
  {header \in HeaderInputs :
     Authenticate(header).status = 0 /\ Authenticate(header).uid = uid}

\* C21: a change-password request whose currentPassword does not verify
\* against the stored hash is answered 400 and leaves every user record as
\* it was.
C21_WrongCurrentPasswordRejected ==
  \A uid \in UserIds :
    \A header \in HeadersOf(uid), b \in ChangePasswordBodies, s \in Salts :
      users[uid].password # Hash(b[1], users[uid].password.salt) =>
        ChangePasswordRoute(header, b[1], b[2], s)
          = Out(users, Reply("change-password", 400))

\* A user with a live session and a failure on record sends a well-formed
\* new password with a wrong, non-empty current one, and gets 400.
C21_Witness ==
  \E uid \in UserIds :
    /\ users[uid].refreshTokens # <<>>
    /\ users[uid].loginAttempts > 0
    /\ \E header \in HeadersOf(uid), b \in ChangePasswordBodies, s \in Salts :
         /\ b[1] # "" /\ b[1] # users[uid].password.of
         /\ Len(b[2]) >= MIN_PASSWORD
         /\ ChangePasswordRoute(header, b[1], b[2], s)
              = Out(users, Reply("change-password", 400))

\* C22: a logout is answered 200; naming a token of the caller's set
\* removes that token and nothing else; naming a token that is not in the
\* set, or no token, leaves every record as it was.  A token that a logout
\* has removed is not in the set, so a second logout with it changes
\* nothing.
C22_LogoutIdempotent ==
  \A uid \in UserIds :
    \A header \in HeadersOf(uid), tok \in LogoutBodies :
      LET r == LogoutRoute(header, tok)
      IN  /\ r.resp = Reply("logout", 200)
          /\ tok = NoToken \/ tok \notin TokenSet(users[uid]) => r.users = users
          /\ TokenSet(r.users[uid]) = TokenSet(users[uid]) \ {tok}
          /\ r.users = [users EXCEPT ![uid].refreshTokens = r.users[uid].refreshTokens]

\* The caller holds two different sessions; logging one out keeps the
\* other, and a logout naming a token that was never stored changes nothing.
C22_Witness ==
  \E uid \in UserIds :
    /\ Cardinality(TokenSet(users[uid])) >= 2
    /\ \E header \in HeadersOf(uid) :
         /\ \E tok \in TokenSet(users[uid]) :
              /\ tok \in LogoutBodies
              /\ Cardinality(TokenSet(LogoutRoute(header, tok).users[uid]))
                   = Cardinality(TokenSet(users[uid])) - 1
         /\ \E tok \in LogoutBodies \ TokenSet(users[uid]) :
              tok # NoToken /\ LogoutRoute(header, tok) = Out(users, Reply("logout", 200))


\* A step that is a login of user uid answered 200.
LoginSucceeds(uid) ==
  \E c \in Clients, b \in LoginRequestsFor(uid) :
    /\ LoginRoute(c, b[1], b[2]).resp.status = 200
    /\ users' = LoginRoute(c, b[1], b[2]).users

\* A step that is a change of password of user uid answered 200.
ChangePasswordSucceeds(uid) ==
  \E header \in HeadersOf(uid), b \in ChangePasswordBodies, s \in Salts :
    /\ ChangePasswordRoute(header, b[1], b[2], s).resp.status = 200
    /\ users' = ChangePasswordRoute(header, b[1], b[2], s).users

\* C23: lastLogin of a stored user changes only in a step that is a
\* successful login of that user; a record that no login has succeeded on
\* (a new registration included) has no lastLogin.
C23_LastLoginOnlyByLogin ==
  /\ [][\A uid \in UserIds :
          users'[uid].lastLogin # users[uid].lastLogin => LoginSucceeds(uid)]_vars
  /\ [](\A uid \in UserIds : users[uid].lastLogin <= now)

\* lastLogin was written at an earlier instant, and since then a failed
\* login, a profile update and a change of password have been saved.
C23_Witness ==
  \E uid \in UserIds :
    /\ users[uid].lastLogin # NoTime
    /\ users[uid].lastLogin < now
    /\ users[uid].loginAttempts > 0
    /\ users[uid].name = "Bo"
    /\ users[uid].password.of = "hunter22"

\* C24: the stored password hash of a user changes only in a step that is
\* a successful change of password by that user.
C24_HashOnlyByChangePassword ==
  [][\A uid \in UserIds :
       users'[uid].password # users[uid].password => ChangePasswordSucceeds(uid)]_vars

\* The hash has been replaced by a change of password, and the record has
\* since been saved by a login, a failed login and a profile update.
C24_Witness ==
  \E uid \in UserIds :
    /\ users[uid].password.of = "hunter22"
    /\ users[uid].lastLogin # NoTime
    /\ users[uid].loginAttempts > 0
    /\ users[uid].theme = "dark"
    /\ users[uid].refreshTokens # <<>>


C26_TokenClassesApart ==
  /\ \A tok \in RefreshInputs \cap SignedTokens :
        tok.kind = "access" => RefreshHandler(tok) = Out(users, Reply("refresh", 401))
  /\ \A header \in HeaderInputs \cap SignedTokens :
        header.kind = "refresh" =>
          /\ Authenticate(header).status # 0
          /\ Authenticate(header).uid = 0
          /\ OptionalAuth(header).uid = 0

\* A user holds a pair minted this second: the access token passes
\* authenticate and is refused by refresh, the refresh token is a stored
\* session that refresh accepts and authenticate refuses.
C26_Witness ==
  \E uid \in UserIds :
    LET pair == generateTokenPair(uid)
    IN  /\ pair.accessToken \in RefreshInputs
        /\ pair.refreshToken \in HeaderInputs
        /\ Authenticate(pair.accessToken).status = 0
        /\ RefreshHandler(pair.accessToken).resp.status = 401
        /\ RefreshHandler(pair.refreshToken).resp.status = 200
        /\ Authenticate(pair.refreshToken).status # 0


\* The refreshes in flight.
Refreshes == {k \in 1..Len(inflight) : inflight[k].op = "refresh"}

\* C27 (as stated): while a refresh is in flight the stored set of its user
\* holds the old token or the new one, and a refresh answered with an error
\* has left the old token in the set it found.
C27_RotationAtomic ==
  \A k \in Refreshes :
    LET req == inflight[k]
        stored == TokenSet(users[req.uid])
    IN  /\ req.pc = "removed" =>
              req.old \in stored \/ req.pair.refreshToken \in stored
        /\ (req.pc = "done" /\ req.resp.status # 200) => req.old \in stored

\* C28: a refresh that has passed the membership check on the document it
\* loaded is answered 200 with a new pair, whatever other requests have
\* written to the stored set since: no write of the rotation is conditional
\* on the old token still being stored.
C28_CheckedRefreshAnswers ==
  \A k \in Refreshes :
    LET req == inflight[k]
    IN  /\ req.pc = "checked" => RefreshRemoveOf(req).pc = "removed"
        /\ req.pc = "removed" => RefreshAddOf(req).resp = ReplyTokens("refresh", 200, req.pair)
        /\ req.pc = "done" => req.resp = ReplyTokens("refresh", 200, req.pair)

\* Two refreshes presented the same token, the second passed the membership
\* check while the first had passed it and written nothing, and both have
\* been answered 200 with a pair.
C28_Witness ==
  \E k, j \in Refreshes :
    /\ k # j
    /\ inflight[k].old = inflight[j].old
    /\ inflight[j].overlap
    /\ inflight[k].pc = "done" /\ inflight[j].pc = "done"
    /\ inflight[k].resp.status = 200 /\ inflight[j].resp.status = 200
    /\ inflight[k].resp.refreshToken # NoToken
    /\ inflight[j].resp.refreshToken # NoToken


\* The logins in flight.
Logins == {k \in 1..Len(inflight) : inflight[k].op = "login"}

\* C29: under every interleaving, a login that is past the password
\* comparison on the success path, or that has been answered with tokens,
\* presented the password the stored hash was made from; a login whose
\* password is another one is answered 401 without tokens.
C29_TokensOnlyAfterOwnPassword ==
  \A k \in Logins :
    LET req == inflight[k]
        own == users[req.uid].password = Hash(req.password, users[req.uid].password.salt)
    IN  /\ req.pc \in {"reset", "saved"} => own
        /\ req.resp.status = 200 \/ ~NoTokens(req) => own
        /\ req.pc = "read" /\ ~own => LoginFailOf(req).resp = Reply("login", 401)
        /\ req.pc = "done" /\ ~own => req.resp = Reply("login", 401)

\* An increment is lost: two failed logins of one user overlapped, both
\* have been answered 401, both left the count they read plus one, and the
\* store holds that count.
C29_Witness ==
  \E k, j \in Logins :
    /\ k # j
    /\ inflight[k].uid = inflight[j].uid
    /\ inflight[j].overlap
    /\ inflight[k].resp.status = 401 /\ inflight[j].resp.status = 401
    /\ inflight[k].doc.loginAttempts = inflight[j].doc.loginAttempts
    /\ users[inflight[k].uid].loginAttempts = inflight[k].doc.loginAttempts
    /\ users[inflight[k].uid].lastLogin = NoTime

\* C30: a login that read the account unlocked and whose password matched
\* is answered 200 with a pair whatever the lock state of the stored record
\* has become: the lock is not read again after findOne.
C30_UnlockedReadCompletes ==
  \A k \in Logins :
    LET req == inflight[k]
    IN  req.ok =>
          /\ req.pc = "saved" =>
                LoginAddOf(req).resp = ReplyTokens("login", 200, generateTokenPair(req.uid))
          /\ req.pc = "done" => req.resp.status = 200 /\ ~NoTokens(req)

\* A login with the right password read the record, unlocked, while a
\* failed login had read it and not yet written; the failed one then locked
\* the account, and the first was answered 200 with a pair at a moment the
\* stored record was locked, as it still is.
C30_Witness ==
  \E k, j \in Logins :
    /\ inflight[k].uid = inflight[j].uid
    /\ inflight[k].ok /\ ~inflight[j].ok
    /\ inflight[k].overlap
    /\ inflight[j].pc = "done" /\ isLocked(inflight[j].doc)
    /\ inflight[k].pc = "done"
    /\ inflight[k].resp.status = 200 /\ ~NoTokens(inflight[k])
    /\ inflight[k].lockedAtAnswer
    /\ isLocked(users[inflight[k].uid])


\* C31: with requests taken one after the other, loginAttempts is between
\* 0 and MAX_LOGIN_ATTEMPTS; a record with no lockUntil has fewer than
\* MAX_LOGIN_ATTEMPTS; and a record has lockUntil only when the run of
\* consecutive failures in progress has reached its fifth, which set it.
C31_LockoutStateInvariant ==
  \A uid \in UserIds :
    /\ users[uid].loginAttempts \in 0..MAX_LOGIN_ATTEMPTS
    /\ users[uid].lockUntil = NoTime =>
          users[uid].loginAttempts \in 0..(MAX_LOGIN_ATTEMPTS - 1)
    /\ users[uid].lockUntil # NoTime =>
          /\ hist[uid].streak = MAX_LOGIN_ATTEMPTS
          /\ users[uid].loginAttempts = MAX_LOGIN_ATTEMPTS
          /\ users[uid].lockUntil = hist[uid].t5 + LOCK_TIME

\* A user who has logged in before carries a lock that has run out, with
\* the five failures that set it still on record.
C31_Witness ==
  \E uid \in UserIds :
    /\ users[uid].lockUntil # NoTime
    /\ users[uid].lockUntil <= now
    /\ users[uid].loginAttempts = MAX_LOGIN_ATTEMPTS
    /\ users[uid].lastLogin # NoTime


\* The refresh requests the handler refuses, by the check that refuses them.
RefreshMissing == {tok \in RefreshInputs : tok = NoToken}
RefreshUnverified ==
  {tok \in RefreshInputs \ RefreshMissing : ~verifyRefreshToken(tok)}
RefreshUserAbsent ==
  {tok \in RefreshInputs : verifyRefreshToken(tok) /\ FindById(tok.userId) = 0}
RefreshNotStored ==
  {tok \in RefreshInputs :
     /\ verifyRefreshToken(tok)
     /\ FindById(tok.userId) # 0
     /\ tok \notin TokenSet(users[FindById(tok.userId)])}
RefreshFailures ==
  RefreshMissing \cup RefreshUnverified \cup RefreshUserAbsent \cup RefreshNotStored

\* C32: a refresh request with no token, with a token that does not verify
\* (junk, signed with the other secret, expired), with a token of a user
\* that does not exist or with a token that is not in its user's set is
\* answered 401 without tokens and leaves every record as it was; every
\* other refresh request is answered 200.
C32_FailedRefreshWritesNothing ==
  LET refused == RefreshFailures
  IN  /\ \A tok \in refused :
            RefreshHandler(tok) = Out(users, Reply("refresh", 401))
      /\ \A tok \in RefreshInputs \ refused :
            RefreshHandler(tok).resp.status = 200

\* A user with two live sessions, at a moment when each kind of refused
\* request can be sent: an expired refresh token of the user, an access
\* token, a token of nobody, and a verifying refresh token of the user that
\* is not a stored session.
C32_Witness ==
  \E uid \in UserIds :
    /\ Cardinality(TokenSet(users[uid])) >= 2
    /\ \E tok \in RefreshUnverified :
         tok.kind = "refresh" /\ tok.userId = uid
    /\ \E tok \in RefreshUnverified : tok.kind = "access"
    /\ RefreshUserAbsent # {}
    /\ \E tok \in RefreshNotStored : tok.userId = uid
    /\ \A tok \in RefreshFailures : RefreshHandler(tok).resp.status = 401


\* C33 (as stated): the refresh token a refresh returns is not the token it
\* was given, and the refresh token a login returns is not one the user
\* already holds from an earlier issuance.
C33_IssuedTokensDiffer ==
  /\ \A tok \in RefreshInputs :
        RefreshHandler(tok).resp.status = 200 =>
          RefreshHandler(tok).resp.refreshToken # tok
  /\ \A uid \in UserIds :
        \A b \in LoginRequestsFor(uid) :
          LoginHandler(b[1], b[2]).resp.status = 200 =>
            LoginHandler(b[1], b[2]).resp.refreshToken \notin TokenSet(users[uid])


\* A step that writes to a record, creates no user, moves no clock and
\* leaves every lockUntil.
LockAndClockKept ==
  /\ users' # users
  /\ Len(users') = Len(users)
  /\ now' = now
  /\ \A uid \in UserIds : users'[uid].lockUntil = users[uid].lockUntil

\* C34: across every step that keeps the users, the clock and the locks
\* (logout, logout-all and change of password among them) authenticate
\* decides every header as it did before the step: an access token that was
\* accepted stays accepted whatever has happened to the refreshTokens set.
C34_AuthenticateIgnoresSessions ==
  [][LockAndClockKept =>
       \A header \in HeaderInputs : Authenticate(header)' = Authenticate(header)]_vars

\* The password has been changed and no session is stored, and the access
\* token of the login made in this second is still accepted.
C34_Witness ==
  \E uid \in UserIds :
    /\ users[uid].refreshTokens = <<>>
    /\ users[uid].password.of = "hunter22"
    /\ \E header \in HeadersOf(uid) : header.iat = users[uid].lastLogin


\* C35: a refresh leaves loginAttempts and lockUntil of every user as they
\* were; and a verifying token that is a stored session of its user is
\* answered 200 with a new pair when the user is locked, when the lock has
\* run out and when there is none alike.
C35_RefreshIgnoresLock ==
  \A tok \in RefreshInputs :
    LET r == RefreshHandler(tok)
        owner == FindById(tok.userId)
    IN  /\ \A uid \in UserIds :
              /\ r.users[uid].loginAttempts = users[uid].loginAttempts
              /\ r.users[uid].lockUntil = users[uid].lockUntil
        /\ (tok # NoToken /\ verifyRefreshToken(tok) /\ owner # 0) =>
              (tok \in TokenSet(users[owner]) <=>
                 r.resp = ReplyTokens("refresh", 200, generateTokenPair(owner)))

\* A locked user presents a stored session token and is given a new pair.
C35_Witness ==
  \E uid \in UserIds :
    /\ isLocked(users[uid])
    /\ \E tok \in RefreshInputs \cap TokenSet(users[uid]) :
         /\ RefreshHandler(tok).resp.status = 200
         /\ ~NoTokens(RefreshHandler(tok))
         /\ isLocked(RefreshHandler(tok).users[uid])


\* The outcome of a logout or a logout-all leaves the record of everybody
\* but the caller as it was.
OthersKept(caller, r) ==
  \A other \in UserIds \ {caller} : r.users[other] = users[other]

\* C36: a logout and a logout-all by an authenticated caller are answered
\* 200 and change nobody else's record, also when the logout names a
\* token stored for another user; and after a logout step that named
\* another user's stored token, a refresh presenting that token is still
\* answered 200.
C36_LogoutOnlyOwnSessions ==
  /\ [](\A caller \in UserIds :
          \A header \in HeadersOf(caller) :
            /\ LogoutAllRoute(header).resp.status = 200
            /\ OthersKept(caller, LogoutAllRoute(header))
            /\ \A tok \in LogoutBodies :
                  /\ LogoutRoute(header, tok).resp.status = 200
                  /\ OthersKept(caller, LogoutRoute(header, tok)))
  /\ [][\A caller \in UserIds :
          \A header \in HeadersOf(caller) :
            \A tok \in LogoutBodies \cap RefreshInputs :
              ( /\ tok.userId # caller
                /\ RefreshHandler(tok).resp.status = 200
                /\ users' = LogoutRoute(header, tok).users
                /\ now' = now )
              => (RefreshHandler(tok).resp.status = 200)']_vars

\* Two users hold a session each, and one of them can send a logout that
\* names the other's stored token.
C36_Witness ==
  \E caller \in UserIds :
    \E other \in UserIds \ {caller} :
      /\ TokenSet(users[caller]) # {}
      /\ \E header \in HeadersOf(caller) :
           \E tok \in LogoutBodies \cap TokenSet(users[other]) :
             /\ tok \notin TokenSet(users[caller])
             /\ LogoutRoute(header, tok) = Out(users, Reply("logout", 200))
             /\ RefreshHandler(tok).resp.status = 200


\* C37: for an authenticated caller, GET /:id answers 200 with the document
\* exactly when the document exists and is the caller's, and 403 without it
\* when it exists and is somebody else's; DELETE /:id removes a document
\* exactly in the same case, and answers 403 and removes nothing for
\* somebody else's; every page of the list holds only documents of the
\* caller; and a request that authenticate turns away gets no document and
\* removes none.
C37_TranscriptionsPerUser ==
  /\ \A caller \in UserIds :
        \A header \in HeadersOf(caller) :
          /\ \A id \in IdInputs :
                LET exists == FindDocById(id) # 0
                    mine == exists /\ transcriptions[id].user = caller
                    g == GetRoute(header, id)
                    d == DeleteRoute(header, id)
                IN  /\ g.status = 200 <=> mine
                    /\ g.data = IF mine THEN transcriptions[id] ELSE NoDoc
                    /\ exists /\ ~mine => g.status = 403 /\ d.resp.status = 403
                    /\ d.resp.status = 200 <=> mine
                    /\ d.docs = IF mine THEN [transcriptions EXCEPT ![id] = NoDoc]
                                 ELSE transcriptions
          /\ \A page \in Pages, limit \in Limits :
                LET l == ListRoute(header, page, limit)
                IN  /\ l.status = 200
                    /\ \A k \in 1..Len(l.data) :
                          /\ FindDocById(l.data[k]) # 0
                          /\ transcriptions[l.data[k]].user = caller
  /\ \A header \in HeaderInputs :
        Authenticate(header).status # 0 =>
          /\ \A id \in IdInputs :
                /\ GetRoute(header, id).data = NoDoc
                /\ DeleteRoute(header, id).docs = transcriptions
          /\ \A page \in Pages, limit \in Limits :
                ListRoute(header, page, limit).data = <<>>

\* Two users have a document each; one of them is refused the other's with
\* 403 on GET and on DELETE, reads its own, and lists only its own.
C37_Witness ==
  \E caller \in UserIds :
    \E header \in HeadersOf(caller) :
      \E own, foreign \in 1..Len(transcriptions) :
        /\ FindDocById(own) # 0 /\ transcriptions[own].user = caller
        /\ FindDocById(foreign) # 0 /\ transcriptions[foreign].user # caller
        /\ GetRoute(header, foreign).status = 403
        /\ DeleteRoute(header, foreign) = OutDocs(transcriptions, ReplyDoc(403, 0))
        /\ GetRoute(header, own).status = 200
        /\ ListRoute(header, 1, 20).data = <<own>>

====
